---- MODULE Spec2Model ----
(***************************************************************************)
(* Session State Holder (AuthProvider, src/context/AuthContext.tsx) of     *)
(* react-jwt-fast, with the network layer (axios) and the backend as a     *)
(* nondeterministic environment.                                           *)
(*                                                                         *)
(* One action is one JavaScript task: an event handler or the continuation *)
(* of an await, run to its next await.  React applies the state setters of *)
(* one task as one batch, and localStorage is written synchronously, so a  *)
(* task is atomic for every observer of (user, token, isLoading, storage). *)
(*                                                                         *)
(* Spec      the context's operations called by any consumer, in any order *)
(* FairSpec  the same tasks with the fairness React and the event loop     *)
(*           give the initial check                                        *)
(* PageSpec  the operations called through the Login, Register and         *)
(*           Dashboard pages behind ProtectedRoute                         *)
(* StoreSpec the backend's register handler over the Credential Store; the *)
(*           backend's source is not part of the sources modelled here, so *)
(*           this part follows the specification document                  *)
(***************************************************************************)
EXTENDS Naturals, FiniteSets, Sequences, TLC

\* ------------------------------------------------------------------ bounds

\* number of login()/register() calls made in one run
MaxCalls == 2

\* number of login()/register() calls made in one run of the fair specification
MaxFairCalls == 1

\* number of POST /register requests the backend receives in one run
MaxRegistrations == 2

\* ------------------------------------------------------------- environment

\* JavaScript null: useState<User | null>(null), localStorage.getItem -> null
Null == "null"

\* usernames known to the backend
Usernames == {"alice", "bob"}

\* tokens the browser can hold in localStorage from an earlier visit
StoredTokens == {"tok_alice_1", "tok_bob_1"}

\* tokens POST /login issues in this run: alice's earlier token is not reissued
IssuedTokens == {"tok_alice_2", "tok_bob_1"}

\* every bearer token of a run
Tokens == StoredTokens \cup IssuedTokens

\* the subject a token encodes: GET /users/me resolves a token to its user
Subject(t) ==
  IF t = "tok_bob_1" THEN "bob" ELSE "alice"

\* passwords typed into the forms
Passwords == {"password123"}

\* the email address typed with a username
EmailOf(username) ==
  IF username = "alice" THEN "alice@example.com" ELSE "bob@example.com"

\* what a rejected axios promise carries, for GET /users/me, POST /login and
\* POST /register: a 4xx response with a detail, or no response at all
ProfileErrors == {"TokenExpiredOrInvalid", "NetworkFailure"}

LoginErrors == {"InvalidCredentials", "NetworkFailure"}

RegisterErrors == {"DuplicateUser", "NetworkFailure"}

Errors == ProfileErrors \cup LoginErrors \cup RegisterErrors

\* ------------------------------------------------------------------- state

VARIABLES
  storage,    \* localStorage slot 'access_token' (Null when absent), line 26
  user,       \* useState<User | null>, line 18: the profile, named by its username
  token,      \* useState<string | null>, line 19
  isLoading,  \* useState(true), line 20
  mounted,    \* the mount effect (lines 22-37) has run
  inits,      \* history: number of times the mount effect has run
  route,      \* what ProtectedRoute renders for the current session
  reqs,       \* axios requests in flight (lines 43, 69, 96)
  ncalls,     \* number of login()/register() calls made so far
  validated,  \* history: tokens a profile request has succeeded for
  ev,         \* history: the task that ran last
  form        \* the page shown and its useState hooks, Login.tsx lines 9-12 and
              \* Register.tsx lines 9-14; call: the login()/register() call its
              \* handleSubmit awaits (0: none)

VARIABLES
  users,      \* Credential Store: the User records, as their public profiles
  handlers,   \* the backend's register handlers, in order of arrival
  last        \* history: the handler that took the last step (0: none)

\* the browser's state and the backend's
client == <<storage, user, token, isLoading, mounted, inits, route, reqs, ncalls, validated, ev, form>>

backend == <<users, handlers, last>>

vars == <<client, backend>>

\* the session as its consumers see it, with the storage slot
Session ==
  [user |-> user, token |-> token, isLoading |-> isLoading, storage |-> storage]

\* the task that ran last: its kind, the call it belongs to (0: the mount
\* effect), the token and the network error it handled, how the call's promise
\* settled in it ("none" while it is still pending) and the error it rejected
\* with, what the request it answers saw, and the session before the task;
\* cred: in register's own tasks, the credentials register() was called with
NoEvent ==
  [kind |-> "none", call |-> 0, tok |-> Null, err |-> Null, origin |-> Null,
   settled |-> "none", thrown |-> Null, seen |-> {}, prior |-> Session,
   cred |-> Null]

Event(kind, call, tok, err, origin, settled, thrown, seen) ==
  [kind |-> kind, call |-> call, tok |-> tok, err |-> err, origin |-> origin,
   settled |-> settled, thrown |-> thrown, seen |-> seen, prior |-> Session,
   cred |-> Null]

\* a request in flight: seen collects what other tasks did to the token while
\* it is outstanding ("logout", "token": a login stored a token, "fail": another
\* profile request failed)
Request(kind, call, tok, username, password, origin) ==
  [kind |-> kind, call |-> call, tok |-> tok, username |-> username,
   password |-> password, origin |-> origin, seen |-> {}, persisted |-> FALSE,
   http |-> Null]

Saw(rs, what) ==
  {[r EXCEPT !.seen = @ \cup {what}] : r \in rs}

\* ------------------------------------------------- AuthProvider, as functions

\* mutation of mountEffect: the else branch forgets setIsLoading(false)
mountEffect_keepsLoading(s) ==
  IF s.storage # Null
    THEN [s EXCEPT !.token = s.storage]
    ELSE s

\* mutation of mountEffect: the stored token is sent but never set in memory
mountEffect_noSetToken(s) ==
  IF s.storage # Null
    THEN s
    ELSE [s EXCEPT !.isLoading = FALSE]

\* mount effect, lines 26-36: the session after the effect's synchronous part
mountEffect(s) ==
  IF s.storage # Null
    THEN [s EXCEPT !.token = s.storage]
    ELSE [s EXCEPT !.isLoading = FALSE]

\* mutation of fetchUserDataOk: setIsLoading(false) only in the catch branch
fetchUserDataOk_keepsLoading(s, data) ==
  [s EXCEPT !.user = data]

\* fetchUserData, try branch and finally, lines 49-50 and 56
fetchUserDataOk(s, data) ==
  [s EXCEPT !.user = data, !.isLoading = FALSE]

\* mutation of fetchUserDataFail: the catch branch forgets removeItem
fetchUserDataFail_keepsStorage(s) ==
  [s EXCEPT !.token = Null, !.isLoading = FALSE]

\* mutation of fetchUserDataFail: the finally block is skipped on failure
fetchUserDataFail_keepsLoading(s) ==
  [s EXCEPT !.storage = Null, !.token = Null]

\* fetchUserData, catch branch and finally, lines 52-56
fetchUserDataFail(s) ==
  [s EXCEPT !.storage = Null, !.token = Null, !.isLoading = FALSE]

\* mutation of fetchUserDataCatch: a request that got no response keeps the token
fetchUserDataCatch_keepsTokenOffline(s, error) ==
  IF error = "NetworkFailure"
    THEN [s EXCEPT !.isLoading = FALSE]
    ELSE fetchUserDataFail(s)

\* fetchUserData, catch (error), lines 51-57: every rejection of the request
\* takes the same branch; the error is written to the console and not read
fetchUserDataCatch(s, error) ==
  fetchUserDataFail(s)

\* mutation of fetchUserDataThrows: the catch block rethrows
fetchUserDataThrows_rethrows(error) ==
  error

\* fetchUserData, catch block, lines 51-54: what it throws on (nothing: the
\* promise fetchUserData returns is fulfilled)
fetchUserDataThrows(error) ==
  Null

\* mutation of fetchUserDataRequest: the header is built from the token state
\* the closure holds, not from the argument
fetchUserDataRequest_stateToken(authToken, s) ==
  [method |-> "GET", url |-> "http://localhost:8000/users/me",
   headers |-> [Authorization |-> "Bearer " \o s.token], body |-> Null]

\* fetchUserData(authToken), lines 43-47: what it hands to axios.get; s is the
\* session the closure was created in
fetchUserDataRequest(authToken, s) ==
  [method |-> "GET", url |-> "http://localhost:8000/users/me",
   headers |-> [Authorization |-> "Bearer " \o authToken], body |-> Null]

\* login, lines 64-69: what it hands to axios.post
loginRequest(username, password) ==
  [method |-> "POST", url |-> "http://localhost:8000/login", headers |-> Null,
   body |-> [type |-> "FormData",
             fields |-> [username |-> username, password |-> password]]]

\* mutation of registerRequest: the fields are appended to a FormData, as in
\* login
registerRequest_formData(username, email, password) ==
  [method |-> "POST", url |-> "http://localhost:8000/register", headers |-> Null,
   body |-> [type |-> "FormData",
             fields |-> [username |-> username, email |-> email,
                         password |-> password]]]

\* register, lines 96-100: what it hands to axios.post, a plain object that
\* axios serialises as JSON
registerRequest(username, email, password) ==
  [method |-> "POST", url |-> "http://localhost:8000/register", headers |-> Null,
   body |-> [type |-> "json",
             fields |-> [username |-> username, email |-> email,
                         password |-> password]]]

\* mutation of loginStore: the token is kept in memory only
loginStore_memoryOnly(s, access_token) ==
  [s EXCEPT !.token = access_token]

\* mutation of loginStore: login reopens the loading window while the profile
\* is being resolved
loginStore_setsLoading(s, access_token) ==
  [s EXCEPT !.storage = access_token, !.token = access_token, !.isLoading = TRUE]

\* login after the token response, lines 71-79
loginStore(s, access_token) ==
  [s EXCEPT !.storage = access_token, !.token = access_token]

\* mutation of logout: the storage slot is left alone
logout_keepsStorage(s) ==
  [s EXCEPT !.user = Null, !.token = Null]

\* mutation of logout: logout also restarts the loading window
logout_setsLoading(s) ==
  [s EXCEPT !.storage = Null, !.user = Null, !.token = Null, !.isLoading = TRUE]

\* logout, lines 118-120
logout(s) ==
  [s EXCEPT !.storage = Null, !.user = Null, !.token = Null]

\* mutation of loginFail: the catch block clears the session
loginFail_clears(s) ==
  [s EXCEPT !.storage = Null, !.user = Null, !.token = Null]

\* login when the token request is rejected: control jumps from line 69 to the
\* catch block, lines 84-88, which calls no setter and leaves localStorage alone
loginFail(s) ==
  s

\* mutation of loginCatch: the catch block throws an error of its own
loginCatch_replaces(error) ==
  "LoginFailed"

\* login, catch block, lines 84-88: what login() rejects with
loginCatch(error) ==
  error

\* mutation of registerCatch: the catch block throws an error of its own
registerCatch_replaces(error) ==
  "RegistrationFailed"

\* register, catch block, lines 107-111: what register() rejects with
registerCatch(error) ==
  error

\* what the caller receives for a failure of the token request: login's
\* rejection, passed through register's catch block when register called login
Rejection(origin, error) ==
  IF origin = "register" THEN registerCatch(loginCatch(error)) ELSE loginCatch(error)

\* mutation of loginSteps: the profile request goes out before the token is
\* written to localStorage
loginSteps_fetchFirst ==
  <<"fetchUserData", "setItem", "setToken">>

\* login after the token response, in statement order: lines 76, 79, 82
loginSteps ==
  <<"setItem", "setToken", "fetchUserData">>

\* statement a runs before statement b
Before(steps, a, b) ==
  \E i, j \in DOMAIN steps : steps[i] = a /\ steps[j] = b /\ i < j

\* mutation of autoLogin: register logs in with empty credentials
autoLogin_noCredentials(username, password) ==
  [username |-> Null, password |-> Null]

\* register, line 106: the credentials its login call is made with
autoLogin(username, password) ==
  [username |-> username, password |-> password]

\* mutation of mountDeps: the effect depends on token
mountDeps_token ==
  {"token"}

\* the dependency array of the mount effect, line 37
mountDeps ==
  {}

\* React runs an effect again after a render in which one of its dependencies
\* differs from the render before
DepsChanged ==
  \E d \in mountDeps : Session[d] # ev.prior[d]

\* mutation of ProtectedRoute: the guard looks at user only
ProtectedRoute_userOnly(s) ==
  IF s.isLoading THEN "Loading"
  ELSE IF s.user = Null THEN "Navigate"
  ELSE "children"

\* mutation of ProtectedRoute: the guard decides before it looks at isLoading
ProtectedRoute_decidesFirst(s) ==
  IF s.user = Null \/ s.token = Null THEN "Navigate"
  ELSE IF s.isLoading THEN "Loading"
  ELSE "children"

\* mutation of ProtectedRoute: a token alone counts as an authenticated user
ProtectedRoute_tokenOnly(s) ==
  IF s.isLoading THEN "Loading"
  ELSE IF s.token = Null THEN "Navigate"
  ELSE "children"

\* ProtectedRoute, src/components/ProtectedRoute.tsx lines 10-34: the loading
\* placeholder, <Navigate to="/login">, or the protected children
ProtectedRoute(s) ==
  IF s.isLoading THEN "Loading"
  ELSE IF s.user = Null \/ s.token = Null THEN "Navigate"
  ELSE "children"

\* the render React makes of the context's consumers after a task:
\* ProtectedRoute reads user, isLoading and token through useAuth (line 11)
Render ==
  route' = ProtectedRoute(Session')

\* --------------------------------------------------------- pages, as functions

\* Register.tsx line 33: the shortest password the form accepts
MinPasswordLength == 6

\* what is typed into the password and confirmation fields of the Register form
FormPasswords == Passwords \cup {"short"}

\* a page as first rendered: useState('') for error, useState(false) for
\* isLoading (Login.tsx lines 11-12, Register.tsx lines 13-14); failed is
\* history: the number of submits rejected so far
NewPage(name) ==
  [page |-> name, error |-> "", isLoading |-> FALSE, call |-> 0, failed |-> 0]

\* the router shows another page: the page shown is unmounted
Show(f, name) ==
  [NewPage(name) EXCEPT !.failed = f.failed]

\* axiosError.response?.data?.detail: the message of a 4xx response, undefined
\* (Null) when the request got no response
Detail(error) ==
  CASE error = "InvalidCredentials" -> "Incorrect username or password"
    [] error = "DuplicateUser" -> "Username or email already registered"
    [] error = "TokenExpiredOrInvalid" -> "Token expired"
    [] OTHER -> Null

\* the fixed message of each form, Login.tsx line 35 and Register.tsx line 50
Fallback(name) ==
  IF name = "login" THEN "Login failed. Please try again."
  ELSE "Registration failed. Please try again."

\* mutation of ErrorText: the form always shows its own message
ErrorText_alwaysFallback(name, error) ==
  Fallback(name)

\* detail || fallback, Login.tsx line 35 and Register.tsx line 50
ErrorText(name, error) ==
  IF Detail(error) \in {Null, ""} THEN Fallback(name) ELSE Detail(error)

\* mutation of validate: the length check comes first
validate_lengthFirst(password, confirmPassword) ==
  IF Len(password) < MinPasswordLength THEN "Password must be at least 6 characters"
  ELSE IF password # confirmPassword THEN "Passwords do not match"
  ELSE ""

\* Register.tsx lines 27-37: the message of the first check that fails, ''
\* when both pass
validate(password, confirmPassword) ==
  IF password # confirmPassword THEN "Passwords do not match"
  ELSE IF Len(password) < MinPasswordLength THEN "Password must be at least 6 characters"
  ELSE ""

\* mutation of SubmitButton: the button ignores isLoading
SubmitButton_neverDisabled(f) ==
  [disabled |-> FALSE,
   label |-> IF f.page = "login" THEN "Login" ELSE "Register"]

\* the submit button, Login.tsx lines 89-95 and Register.tsx lines 138-144
SubmitButton(f) ==
  [disabled |-> f.isLoading,
   label |-> IF f.page = "login"
               THEN IF f.isLoading THEN "Logging in..." ELSE "Login"
               ELSE IF f.isLoading THEN "Registering..." ELSE "Register"]

\* handleSubmit up to its await: setError(''), setIsLoading(true) and the call,
\* Login.tsx lines 23-27 and Register.tsx lines 25, 39-43
handleSubmit(f, call) ==
  [f EXCEPT !.error = "", !.isLoading = TRUE, !.call = call]

\* handleSubmit after the promise is fulfilled: navigate('/dashboard') unmounts
\* the page, Login.tsx lines 28-29 and Register.tsx lines 44-45
handleSubmitThen(f) ==
  Show(f, "dashboard")

\* mutation of handleSubmitCatch: setIsLoading(false) in the try block only
handleSubmitCatch_keepsLoading(f, error) ==
  [f EXCEPT !.error = ErrorText(f.page, error), !.call = 0, !.failed = @ + 1]

\* mutation of handleSubmitCatch: navigate('/dashboard') in the finally block
handleSubmitCatch_navigates(f, error) ==
  [Show(f, "dashboard") EXCEPT !.failed = @ + 1]

\* handleSubmit, catch and finally, Login.tsx lines 30-40 and Register.tsx
\* lines 46-55
handleSubmitCatch(f, error) ==
  [f EXCEPT !.error = ErrorText(f.page, error), !.isLoading = FALSE, !.call = 0,
            !.failed = @ + 1]

\* the continuation of handleSubmit, in the task that settles the promise it
\* awaits; a call no form made leaves the page alone
Settle ==
  form' = IF form.call # 0 /\ ev'.call = form.call
            THEN CASE ev'.settled = "resolved" -> handleSubmitThen(form)
                   [] ev'.settled = "rejected" -> handleSubmitCatch(form, ev'.thrown)
                   [] OTHER -> form
            ELSE form

Apply(s) ==
  /\ storage' = s.storage
  /\ user' = s.user
  /\ token' = s.token
  /\ isLoading' = s.isLoading

\* ------------------------------------------------------------------ actions

Init ==
  /\ storage \in StoredTokens \cup {Null}
  /\ user = Null
  /\ token = Null
  /\ isLoading = TRUE
  /\ mounted = FALSE
  /\ inits = 0
  /\ route = ProtectedRoute(Session)
  /\ reqs = {}
  /\ ncalls = 0
  /\ validated = {}
  /\ ev = NoEvent
  /\ form = NewPage("login")
  /\ users = {}
  /\ handlers = <<>>
  /\ last = 0

\* the browser's side of TypeOK follows; the backend's is StoreTypeOK
TypeOK ==
  /\ storage \in Tokens \cup {Null}
  /\ token \in Tokens \cup {Null}
  /\ user \in Usernames \cup {Null}
  /\ isLoading \in BOOLEAN
  /\ mounted \in BOOLEAN
  /\ inits \in 0..1
  /\ route \in {"Loading", "Navigate", "children"}
  /\ ncalls \in 0..MaxCalls
  /\ validated \subseteq Tokens
  /\ \A r \in reqs : r.kind \in {"profile", "login", "register"}
  /\ ev.err \in Errors \cup {Null}
  /\ form.page \in {"login", "register", "dashboard"}
  /\ form.isLoading \in BOOLEAN
  /\ form.call \in 0..ncalls
  /\ form.failed \in 0..ncalls

\* useEffect(() => {...}, []), lines 22-37
Mount ==
  /\ ~mounted \/ DepsChanged
  /\ mounted' = TRUE
  /\ inits' = inits + 1
  /\ Apply(mountEffect(Session))
  /\ reqs' = IF storage # Null
               THEN reqs \cup {[Request("profile", 0, storage, Null, Null, "init")
                                 EXCEPT !.persisted = TRUE,
                                        !.http = fetchUserDataRequest(storage, Session)]}
               ELSE reqs
  /\ ev' = Event("mount", 0, storage, Null, "init", "none", Null, {})
  /\ UNCHANGED <<ncalls, validated, backend>>
  /\ Render
  /\ Settle

\* the task of a logout() call, lines 114-123
logoutCall ==
  /\ mounted
  /\ Apply(logout(Session))
  /\ reqs' = Saw(reqs, "logout")
  /\ ev' = Event("logout", 0, Null, Null, Null, "none", Null, {})
  /\ UNCHANGED <<mounted, inits, ncalls, validated, backend>>
  /\ Render

\* a consumer of the context calls logout()
Logout ==
  /\ logoutCall
  /\ Settle

\* login(username, password) up to its first await, lines 60-69
login(username, password) ==
  /\ mounted
  /\ ncalls < MaxCalls
  /\ ncalls' = ncalls + 1
  /\ reqs' = reqs \cup {[Request("login", ncalls + 1, Null, username, password, "login")
                           EXCEPT !.http = loginRequest(username, password)]}
  /\ ev' = Event("loginCall", ncalls + 1, Null, Null, "login", "none", Null, {})
  /\ UNCHANGED <<storage, user, token, isLoading, mounted, inits, validated, backend>>
  /\ Render

\* a consumer of the context calls login()
LoginCall(username, password) ==
  /\ login(username, password)
  /\ Settle

\* POST /login answered 200: login continues to the await of fetchUserData,
\* lines 69-82 and 39-47
LoginResponseOk(r, access_token) ==
  /\ r \in reqs /\ r.kind = "login"
  /\ access_token \in IssuedTokens /\ Subject(access_token) = r.username
  /\ Apply(loginStore(Session, access_token))
  /\ reqs' = Saw(reqs \ {r}, "token")
               \cup {[Request("profile", r.call, access_token, r.username, r.password, r.origin)
                       EXCEPT !.persisted = /\ Before(loginSteps, "setItem", "fetchUserData")
                                            /\ storage' = access_token,
                              !.http = fetchUserDataRequest(access_token, Session)]}
  /\ ev' = Event("loginOk", r.call, access_token, Null, r.origin, "none", Null, r.seen)
  /\ UNCHANGED <<mounted, inits, ncalls, validated, backend>>
  /\ Render
  /\ Settle

\* POST /login rejected: login's catch block rethrows, lines 84-88 (and
\* register's, lines 107-111, when register made the call)
LoginResponseErr(r, error) ==
  /\ r \in reqs /\ r.kind = "login"
  /\ Apply(loginFail(Session))
  /\ reqs' = reqs \ {r}
  /\ ev' = Event("loginErr", r.call, Null, error, r.origin, "rejected",
                 Rejection(r.origin, error), r.seen)
  /\ UNCHANGED <<mounted, inits, ncalls, validated, backend>>
  /\ Render
  /\ Settle

\* the promise awaiting a profile request: login() resolves after
\* fetchUserData returns, whichever branch it took (lines 82-83); the mount
\* effect awaits nothing (line 32)
Settled(r) ==
  IF r.origin = "init" THEN "none" ELSE "resolved"

\* GET /users/me answered 200, lines 43-50 and 55-57
ProfileResponseOk(r) ==
  /\ r \in reqs /\ r.kind = "profile"
  /\ Apply(fetchUserDataOk(Session, Subject(r.tok)))
  /\ reqs' = reqs \ {r}
  /\ validated' = validated \cup {r.tok}
  /\ ev' = Event("profileOk", r.call, r.tok, Null, r.origin, Settled(r), Null, r.seen)
  /\ UNCHANGED <<mounted, inits, ncalls, backend>>
  /\ Render
  /\ Settle

\* GET /users/me rejected (401 or no response), lines 51-57
ProfileResponseErr(r, error) ==
  /\ r \in reqs /\ r.kind = "profile"
  /\ Apply(fetchUserDataCatch(Session, error))
  /\ reqs' = Saw(reqs \ {r}, "fail")
  /\ LET thrown == fetchUserDataThrows(error) IN
       ev' = IF thrown = Null
               THEN Event("profileErr", r.call, r.tok, error, r.origin, Settled(r), Null, r.seen)
               ELSE Event("profileErr", r.call, r.tok, error, r.origin, "rejected",
                          IF r.origin = "init" THEN thrown ELSE Rejection(r.origin, thrown),
                          r.seen)
  /\ UNCHANGED <<mounted, inits, ncalls, validated, backend>>
  /\ Render
  /\ Settle

\* register(username, email, password) up to its first await, lines 91-100;
\* the email is the one typed with the username
register(username, password) ==
  /\ mounted
  /\ ncalls < MaxCalls
  /\ ncalls' = ncalls + 1
  /\ reqs' = reqs \cup {[Request("register", ncalls + 1, Null, username, password, "register")
                           EXCEPT !.http = registerRequest(username, EmailOf(username), password)]}
  /\ ev' = [Event("registerCall", ncalls + 1, Null, Null, "register", "none", Null, {})
              EXCEPT !.cred = [username |-> username, password |-> password]]
  /\ UNCHANGED <<storage, user, token, isLoading, mounted, inits, validated, backend>>
  /\ Render

\* a consumer of the context calls register()
RegisterCall(username, password) ==
  /\ register(username, password)
  /\ Settle

\* POST /register answered 200: register calls login with the same
\* credentials, which runs to its first await, lines 102-106 and 60-69
RegisterResponseOk(r) ==
  /\ r \in reqs /\ r.kind = "register"
  /\ LET c == autoLogin(r.username, r.password) IN
       reqs' = (reqs \ {r})
                 \cup {[Request("login", r.call, Null, c.username, c.password, r.origin)
                         EXCEPT !.seen = r.seen,
                                !.http = loginRequest(c.username, c.password)]}
  /\ ev' = [Event("registerOk", r.call, Null, Null, r.origin, "none", Null, r.seen)
              EXCEPT !.cred = [username |-> r.username, password |-> r.password]]
  /\ UNCHANGED <<storage, user, token, isLoading, mounted, inits, ncalls, validated, backend>>
  /\ Render
  /\ Settle

\* POST /register rejected: register's catch block rethrows, lines 107-111
RegisterResponseErr(r, error) ==
  /\ r \in reqs /\ r.kind = "register"
  /\ reqs' = reqs \ {r}
  /\ ev' = Event("registerErr", r.call, Null, error, r.origin, "rejected",
                 registerCatch(error), r.seen)
  /\ UNCHANGED <<storage, user, token, isLoading, mounted, inits, ncalls, validated, backend>>
  /\ Render
  /\ Settle

Next ==
  \/ Mount
  \/ Logout
  \/ \E u \in Usernames, p \in Passwords : LoginCall(u, p)
  \/ \E r \in reqs, t \in IssuedTokens : LoginResponseOk(r, t)
  \/ \E r \in reqs, e \in LoginErrors : LoginResponseErr(r, e)
  \/ \E r \in reqs : ProfileResponseOk(r)
  \/ \E r \in reqs, e \in ProfileErrors : ProfileResponseErr(r, e)
  \/ \E u \in Usernames, p \in Passwords : RegisterCall(u, p)
  \/ \E r \in reqs : RegisterResponseOk(r)
  \/ \E r \in reqs, e \in RegisterErrors : RegisterResponseErr(r, e)

Spec == Init /\ [][Next]_vars

\* ---------------------------------------------------------------- the pages

\* Login.tsx handleSubmit up to its await, lines 19-27; the submit button is
\* disabled while isLoading (line 91)
LoginSubmit(username, password) ==
  /\ form.page = "login" /\ ~SubmitButton(form).disabled
  /\ login(username, password)
  /\ form' = handleSubmit(form, ncalls + 1)

\* Register.tsx handleSubmit up to its await, or to the return of a failed
\* check, lines 21-43; the submit button is disabled while isLoading (line 140)
RegisterSubmit(username, password, confirmPassword) ==
  /\ form.page = "register" /\ ~SubmitButton(form).disabled
  /\ IF validate(password, confirmPassword) # ""
       THEN /\ mounted
            /\ form' = [form EXCEPT !.error = validate(password, confirmPassword)]
            /\ ev' = [Event("invalid", 0, Null, Null, "register", "none", Null, {})
                        EXCEPT !.cred = [username |-> username, password |-> password,
                                         confirmPassword |-> confirmPassword]]
            /\ UNCHANGED <<storage, user, token, isLoading, mounted, inits, route,
                           reqs, ncalls, validated, backend>>
       ELSE /\ register(username, password)
            /\ form' = handleSubmit(form, ncalls + 1)

\* the user follows a link to another page while no submit is in flight
\* (Login.tsx and Register.tsx <Link>, or the address bar)
GoTo(name) ==
  /\ mounted
  /\ form.call = 0 /\ form.page # name
  /\ form' = Show(form, name)
  /\ ev' = Event("goto", 0, Null, Null, Null, "none", Null, {})
  /\ UNCHANGED <<storage, user, token, isLoading, mounted, inits, route, reqs,
                 ncalls, validated, backend>>

\* ProtectedRoute around the dashboard renders <Navigate to="/login" replace />,
\* ProtectedRoute.tsx lines 27-30
Redirect ==
  /\ form.page = "dashboard" /\ route = "Navigate"
  /\ form' = Show(form, "login")
  /\ ev' = Event("redirect", 0, Null, Null, Null, "none", Null, {})
  /\ UNCHANGED <<storage, user, token, isLoading, mounted, inits, route, reqs,
                 ncalls, validated, backend>>

\* Dashboard.tsx handleLogout, lines 14-18: logout(); navigate('/login')
handleLogout ==
  /\ form.page = "dashboard" /\ route = "children"
  /\ logoutCall
  /\ form' = Show(form, "login")

\* the application driven through its pages
PageNext ==
  \/ Mount
  \/ \E u \in Usernames, p \in Passwords : LoginSubmit(u, p)
  \/ \E u \in Usernames, p, c \in FormPasswords : RegisterSubmit(u, p, c)
  \/ \E r \in reqs, t \in IssuedTokens : LoginResponseOk(r, t)
  \/ \E r \in reqs, e \in LoginErrors : LoginResponseErr(r, e)
  \/ \E r \in reqs : ProfileResponseOk(r)
  \/ \E r \in reqs, e \in ProfileErrors : ProfileResponseErr(r, e)
  \/ \E r \in reqs : RegisterResponseOk(r)
  \/ \E r \in reqs, e \in RegisterErrors : RegisterResponseErr(r, e)
  \/ \E name \in {"login", "register", "dashboard"} : GoTo(name)
  \/ Redirect
  \/ handleLogout

PageSpec == Init /\ [][PageNext]_vars

\* ----------------------------------------------------- the Credential Store

\* email addresses of registration requests
Emails == {"alice@example.com", "bob@example.com"}

\* a User record as the store returns it: id, username, email (the password
\* hash is in no response)
User(id, username, email) ==
  [id |-> id, username |-> username, email |-> email]

\* mutation of Exists: the lookup is by username only
Exists_usernameOnly(us, username, email) ==
  \E u \in us : u.username = username

\* a record with this username or this email is in the store
Exists(us, username, email) ==
  \E u \in us : u.username = username \/ u.email = email

\* mutation of insertIfAbsent: the insert checks no uniqueness constraint
insertIfAbsent_noConstraint(us, username, email) ==
  us \cup {User(Cardinality(us) + 1, username, email)}

\* the store's insert under its uniqueness constraint on username and email:
\* the set is unchanged when the constraint rejects the record
insertIfAbsent(us, username, email) ==
  IF Exists(us, username, email)
    THEN us
    ELSE us \cup {User(Cardinality(us) + 1, username, email)}

\* a register handler: pc is its next step, result what it has answered
Handler(username, email) ==
  [username |-> username, email |-> email, pc |-> "check", result |-> Null,
   prior |-> users]

StoreTypeOK ==
  /\ \A u \in users : u.username \in Usernames /\ u.email \in Emails
  /\ Len(handlers) <= MaxRegistrations
  /\ \A i \in DOMAIN handlers :
        /\ handlers[i].pc \in {"check", "insert", "done"}
        /\ handlers[i].result \in {Null, "created", "DuplicateUser"}
  /\ last \in 0..Len(handlers)

\* POST /register arrives: a handler starts
StoreReceive(username, email) ==
  /\ Len(handlers) < MaxRegistrations
  /\ handlers' = Append(handlers, Handler(username, email))
  /\ last' = Len(handlers) + 1
  /\ UNCHANGED <<users, client>>

\* register: fails with DuplicateUser if username or email already exists
StoreCheck(i) ==
  /\ handlers[i].pc = "check"
  /\ handlers' = [handlers EXCEPT ![i] =
                    IF Exists(users, @.username, @.email)
                      THEN [@ EXCEPT !.pc = "done", !.result = "DuplicateUser",
                                     !.prior = users]
                      ELSE [@ EXCEPT !.pc = "insert", !.prior = users]]
  /\ last' = i
  /\ UNCHANGED <<users, client>>

\* register: otherwise inserts a new User record; a record the uniqueness
\* constraint rejects at insert time is answered DuplicateUser
StoreInsert(i) ==
  /\ handlers[i].pc = "insert"
  /\ users' = insertIfAbsent(users, handlers[i].username, handlers[i].email)
  /\ handlers' = [handlers EXCEPT ![i] =
                    [@ EXCEPT !.pc = "done",
                              !.result = IF users' = users THEN "DuplicateUser"
                                         ELSE "created",
                              !.prior = users]]
  /\ last' = i
  /\ UNCHANGED client

\* the backend serving registrations, each handler at its own pace
StoreNext ==
  \/ \E u \in Usernames, e \in Emails : StoreReceive(u, e)
  \/ \E i \in DOMAIN handlers : StoreCheck(i)
  \/ \E i \in DOMAIN handlers : StoreInsert(i)

StoreSpec == Init /\ [][StoreNext]_vars

\* ---------------------------------------------------------------- liveness

\* the response of the initialization's profile request is handled
InitProfileResponse ==
  \E r \in reqs :
    /\ r.origin = "init"
    /\ ProfileResponseOk(r) \/ \E e \in ProfileErrors : ProfileResponseErr(r, e)

\* the tasks of Next, with at most MaxFairCalls calls of login()/register()
FairNext ==
  \/ Mount
  \/ Logout
  \/ \E u \in Usernames, p \in Passwords : ncalls < MaxFairCalls /\ LoginCall(u, p)
  \/ \E r \in reqs, t \in IssuedTokens : LoginResponseOk(r, t)
  \/ \E r \in reqs, e \in LoginErrors : LoginResponseErr(r, e)
  \/ \E r \in reqs : ProfileResponseOk(r)
  \/ \E r \in reqs, e \in ProfileErrors : ProfileResponseErr(r, e)
  \/ \E u \in Usernames, p \in Passwords : ncalls < MaxFairCalls /\ RegisterCall(u, p)
  \/ \E r \in reqs : RegisterResponseOk(r)
  \/ \E r \in reqs, e \in RegisterErrors : RegisterResponseErr(r, e)

\* React runs the mount effect after the first commit, and the event loop runs
\* the continuation of fetchUserData once axios settles the request
FairSpec ==
  Init /\ [][FairNext]_vars /\ WF_vars(Mount) /\ WF_vars(InitProfileResponse)

\* ------------------------------------------------------------------ claims

LoggedOut ==
  token = Null /\ user = Null /\ storage = Null

\* C1: in every reachable state user is populated if and only if token is
\* present and a profile request has succeeded for that token; in particular
\* user is never non-null while token is null.
C1_UserIffValidatedToken ==
  (user # Null) <=> (token # Null /\ token \in validated)

\* C2: when logout() was called while a profile request was in flight (and no
\* login has stored a token since), the session is logged out after that
\* request's response has been handled, success or failure.
C2_LogoutDuringFetchEndsLoggedOut ==
  (/\ ev.kind \in {"profileOk", "profileErr"}
   /\ "logout" \in ev.seen
   /\ "token" \notin ev.seen)
    => LoggedOut

\* C3: as soon as logout() returns, the in-memory token and user are null and
\* the storage slot is empty, whatever the state it was called in.
C3_LogoutClears ==
  ev.kind = "logout" => LoggedOut

\* logout() has run in an Authenticated session
C3_Witness ==
  /\ ev.kind = "logout"
  /\ ev.prior.user # Null /\ ev.prior.token # Null /\ ~ev.prior.isLoading

Unauthenticated ==
  mounted /\ ~isLoading /\ user = Null /\ token = Null

\* C4: logout() is idempotent: right after a logout() a second logout() would
\* leave (token, user, isLoading, storage) as they are, and logout() in an
\* Unauthenticated session changes nothing.
C4_LogoutIdempotent ==
  /\ ev.kind = "logout" => logout(Session) = Session
  /\ Unauthenticated => logout(Session) = Session
  /\ (ev.kind = "logout" /\ ~ev.prior.isLoading /\ ev.prior.user = Null
        /\ ev.prior.token = Null) => Session = ev.prior

\* logout() has run in a session that was already Unauthenticated
C4_Witness ==
  /\ ev.kind = "logout"
  /\ ~ev.prior.isLoading /\ ev.prior.user = Null /\ ev.prior.token = Null

\* C5: when the profile request the mount effect sent for the persisted token
\* fails, for whatever cause, token is null, isLoading false and the storage
\* slot empty; and, no login having stored a token meanwhile, user is null:
\* the session is Unauthenticated.
C5_InitFailureEndsUnauthenticated ==
  (ev.kind = "profileErr" /\ ev.origin = "init")
    => (/\ token = Null /\ ~isLoading /\ storage = Null
        /\ "token" \notin ev.seen => user = Null)

\* the mount effect found a token and its profile request was answered 401
C5_Witness ==
  /\ ev.kind = "profileErr" /\ ev.origin = "init" /\ "token" \notin ev.seen
  /\ ev.err = "TokenExpiredOrInvalid"
  /\ ev.prior.storage \in StoredTokens

\* C6: when the mount effect finds no persisted token, the session is
\* Unauthenticated right after it (user null, token null, isLoading false)
\* and no profile request has been sent.
C6_NoTokenGoesUnauthenticated ==
  (ev.kind = "mount" /\ ev.tok = Null)
    => (/\ user = Null /\ token = Null /\ ~isLoading
        /\ {r \in reqs : r.kind = "profile"} = {})

\* the mount effect has run on an empty storage slot
C6_Witness ==
  ev.kind = "mount" /\ ev.tok = Null /\ storage = Null

\* C7: when the profile request the mount effect sent for the persisted token
\* succeeds, user is the returned profile and isLoading false; and, nothing
\* having touched the token meanwhile, token is the persisted token and the
\* storage slot still holds it: the session is Authenticated.
C7_InitSuccessEndsAuthenticated ==
  (ev.kind = "profileOk" /\ ev.origin = "init")
    => (/\ user = Subject(ev.tok)
        /\ ~isLoading
        /\ ev.seen = {} => (token = ev.tok /\ storage = ev.tok))

\* the mount effect found a token and its profile request was answered 200
C7_Witness ==
  /\ ev.kind = "profileOk" /\ ev.origin = "init" /\ ev.seen = {}
  /\ ev.tok \in StoredTokens /\ ev.prior.isLoading

\* C8: when login()'s token request and the profile request after it both
\* succeed, then as login() resolves user is the returned profile; and,
\* nothing else having touched the token between the two responses, token is
\* the issued access_token and the storage slot holds the same token.
C8_LoginSuccessStoresTokenAndUser ==
  (ev.kind = "profileOk" /\ ev.origin \in {"login", "register"})
    => (/\ ev.settled = "resolved"
        /\ user = Subject(ev.tok)
        /\ ev.seen = {} => (token = ev.tok /\ storage = ev.tok))

\* login() has resolved after both requests succeeded
C8_Witness ==
  /\ ev.kind = "profileOk" /\ ev.origin = "login"
  /\ ev.settled = "resolved" /\ ev.seen = {}
  /\ ev.tok \in IssuedTokens

\* C9: login() writes nothing when its token request fails: neither the call
\* nor the handling of the rejection changes token, user or the storage slot,
\* for every prior state, an Authenticated session included.
C9_FailedLoginChangesNothing ==
  (ev.kind \in {"loginCall", "loginErr"})
    => (/\ token = ev.prior.token
        /\ user = ev.prior.user
        /\ storage = ev.prior.storage)

\* a token request has failed while the session was Authenticated
C9_Witness ==
  /\ ev.kind = "loginErr" /\ ev.origin = "login"
  /\ ev.prior.user # Null /\ ev.prior.token # Null /\ ev.prior.storage # Null

\* C10: when the token request fails, login() rejects with exactly the error
\* the network layer gave it.
C10_LoginRejectsWithNetworkError ==
  ev.kind = "loginErr" => (ev.settled = "rejected" /\ ev.thrown = ev.err)

\* a token request has been rejected with the backend's InvalidCredentials
C10_Witness ==
  ev.kind = "loginErr" /\ ev.origin = "login" /\ ev.err = "InvalidCredentials"

\* C11: when login()'s token request succeeds and the profile request after
\* it fails, the session is cleared: token absent, user absent and the storage
\* slot empty, whatever the state login() was called in.
C11_LoginProfileFailureClears ==
  (ev.kind = "profileErr" /\ ev.origin \in {"login", "register"}) => LoggedOut

\* the requests of call c that are in flight
InFlight(c) ==
  {r \in reqs : r.call = c}

\* C12: when the registration request succeeds, register() calls login with
\* the username and password it was called with; the login request is in
\* flight only once the registration request has been answered; and when
\* login's two requests succeed register() resolves with user the returned
\* profile and, nothing else having touched the token between the two
\* responses, the issued token in memory and in the storage slot.
C12_RegisterAutoLogin ==
  /\ ev.kind = "registerOk" =>
        \E q \in InFlight(ev.call) :
          /\ q.kind = "login"
          /\ q.username = ev.cred.username
          /\ q.password = ev.cred.password
  /\ \A q \in reqs :
        (q.kind = "login" /\ q.origin = "register") => InFlight(q.call) = {q}
  /\ (ev.kind = "profileOk" /\ ev.origin = "register") =>
        /\ ev.settled = "resolved"
        /\ user = Subject(ev.tok)
        /\ ev.seen = {} => (token = ev.tok /\ storage = ev.tok)

\* register() has resolved Authenticated after all three requests succeeded
C12_Witness ==
  /\ ev.kind = "profileOk" /\ ev.origin = "register" /\ ev.seen = {}
  /\ ev.settled = "resolved"
  /\ token = ev.tok /\ storage = ev.tok /\ user = Subject(ev.tok)

\* the state right after a rejected registration request
C13_RejectedState ==
  ev.kind = "registerErr" =>
    /\ ev.settled = "rejected" /\ ev.thrown = ev.err
    /\ InFlight(ev.call) = {}
    /\ token = ev.prior.token /\ user = ev.prior.user /\ storage = ev.prior.storage

\* a call that has no request in flight is settled and sends none afterwards
C13_SettledStaysSilent ==
  \A c \in 1..ncalls : InFlight(c) = {} => InFlight(c)' = {}

\* C13: when the registration request fails, register() rejects with the same
\* error unchanged, token, user and the storage slot stay as they were, and no
\* login request is sent for that call then or later.
C13_RegisterFailure ==
  []C13_RejectedState /\ [][C13_SettledStaysSilent]_vars

\* a registration has been rejected as a duplicate
C13_Witness ==
  ev.kind = "registerErr" /\ ev.err = "DuplicateUser" /\ ev.thrown = "DuplicateUser"

\* every value the session can be given
AllSessions ==
  [user : Usernames \cup {Null}, token : Tokens \cup {Null},
   isLoading : BOOLEAN, storage : Tokens \cup {Null}]

\* the guard as a function: the placeholder for every loading session
C14_ForEverySession ==
  \A s \in AllSessions : s.isLoading => ProtectedRoute(s) = "Loading"

\* C14: while isLoading is true the Route Guard renders the loading
\* placeholder, neither the protected content nor a redirect, in every
\* reachable state and for every value of user and token.
C14_LoadingRendersPlaceholder ==
  /\ isLoading => route = "Loading"
  /\ C14_ForEverySession

\* the guard is rendered during the initial check, with a token already set
C14_Witness ==
  mounted /\ isLoading /\ token # Null /\ route = "Loading"

\* the guard as a function: its decision for every session that is not loading
C15_ForEverySession ==
  \A s \in AllSessions : ~s.isLoading =>
    /\ ProtectedRoute(s) = "children" <=> (s.user # Null /\ s.token # Null)
    /\ ProtectedRoute(s) # "children" => ProtectedRoute(s) = "Navigate"

\* C15: once isLoading is false the Route Guard renders the protected content
\* exactly when user and token are both present, and redirects to the login
\* entry point in every other case.
C15_GuardDecision ==
  /\ ~isLoading =>
        /\ route = "children" <=> (user # Null /\ token # Null)
        /\ route # "children" => route = "Navigate"
  /\ C15_ForEverySession

\* the guard renders the protected content for an Authenticated session
C15_Witness ==
  ~isLoading /\ user # Null /\ token # Null /\ route = "children"

\* C16: the Route Guard renders protected content only when the session's
\* current token has been validated and user is the profile resolved for it.
C16_ContentOnlyForValidatedToken ==
  route = "children" => (token \in validated /\ user = Subject(token))

\* C17: user is non-null only after a profile request has succeeded for a
\* token of that user; every profile request carries a token that was in the
\* storage slot when the request was sent; and right after login's token
\* response the issued token is in the storage slot with its profile request
\* in flight.
C17_ProfileFollowsPersistedToken ==
  /\ user # Null => \E t \in validated : Subject(t) = user
  /\ \A r \in reqs : r.kind = "profile" => (r.tok \in Tokens /\ r.persisted)
  /\ ev.kind = "loginOk" =>
        /\ storage = ev.tok
        /\ \E r \in InFlight(ev.call) : r.kind = "profile" /\ r.tok = ev.tok

\* login() has resolved with the user set by its own profile request
C17_Witness ==
  /\ ev.kind = "profileOk" /\ ev.origin = "login"
  /\ user = Subject(ev.tok) /\ ev.tok \in validated

\* C18: the mount effect runs once: never a second time, whatever happens to
\* token, user or isLoading afterwards, and at most one profile request of
\* the initialization is ever in flight.
C18_InitRunsOnce ==
  /\ inits <= 1
  /\ mounted <=> inits = 1
  /\ Cardinality({r \in reqs : r.origin = "init"}) <= 1

\* token, user and isLoading have all changed since the mount effect ran
C18_Witness ==
  /\ inits = 1 /\ ev.kind = "profileOk" /\ ev.origin = "login"
  /\ ev.prior.user # user /\ ev.prior.token # Null

\* C19: once the mount effect has run, the in-memory token equals the content
\* of the storage slot in every reachable state.
C19_TokenMirrorsStorage ==
  mounted => token = storage

\* a login has stored a token in memory and in the slot
C19_Witness ==
  mounted /\ ev.kind = "loginOk" /\ token = ev.tok /\ storage = ev.tok

\* C20: the response of a profile request for a token other than the
\* session's current token is not applied: token, user and the storage slot
\* stay as they were.
C20_StaleResponseNotApplied ==
  (/\ ev.kind \in {"profileOk", "profileErr"}
   /\ ev.prior.token # Null
   /\ ev.prior.token # ev.tok)
    => (/\ token = ev.prior.token
        /\ storage = ev.prior.storage
        /\ user = ev.prior.user)

Authenticated ==
  mounted /\ ~isLoading /\ user # Null /\ token # Null

\* the state right after the initialization's profile response
C21_Completed ==
  (ev.kind \in {"profileOk", "profileErr"} /\ ev.origin = "init") =>
    /\ ~isLoading
    /\ ev.seen = {} => (Authenticated \/ Unauthenticated)

\* C21: the session goes from Uninitialized through Checking to Authenticated
\* or Unauthenticated: the mount effect runs, a loading session always reaches
\* isLoading false once the profile request for the persisted token completes,
\* and right after that response the session is (nothing else having touched
\* the token meanwhile) Authenticated or Unauthenticated.
C21_CheckingTerminates ==
  /\ []C21_Completed
  /\ ~mounted ~> mounted
  /\ isLoading ~> ~isLoading

\* the initial check has ended with the response for the persisted token
C21_Witness ==
  /\ ev.kind \in {"profileOk", "profileErr"} /\ ev.origin = "init"
  /\ ev.prior.isLoading /\ ev.prior.token \in StoredTokens /\ ~isLoading

\* the state right after the initialization's profile request has failed, and
\* the content before any token has been validated
C22_State ==
  /\ (ev.kind = "profileErr" /\ ev.origin = "init") =>
        /\ route = "Navigate"
        /\ ev.settled = "none" /\ ev.thrown = Null
  /\ validated = {} => route # "children"

\* C22: when initialization finds an expired or invalid persisted token the
\* Route Guard leaves the loading placeholder and redirects to the login entry
\* point, the protected content is not rendered as long as no token has been
\* validated, and the failure rejects no promise: nothing is raised to a
\* caller.
C22_ExpiredTokenRedirects ==
  /\ []C22_State
  /\ (route = "Loading") ~> (route # "Loading")

\* the persisted token was rejected as expired and the guard redirects
C22_Witness ==
  /\ ev.kind = "profileErr" /\ ev.origin = "init"
  /\ ev.err = "TokenExpiredOrInvalid" /\ ev.prior.token \in StoredTokens
  /\ ev.prior.isLoading /\ route = "Navigate" /\ validated = {}

\* C23: when a login or a registration submitted from a form is rejected, the
\* form shows the detail message of the server's response, exactly, when the
\* rejection carries one, and its own fixed message when there was no response.
C23_FormShowsError ==
  ev.settled = "rejected" =>
    /\ form.page = ev.origin
    /\ ev.err = "InvalidCredentials" => form.error = "Incorrect username or password"
    /\ ev.err = "DuplicateUser" => form.error = "Username or email already registered"
    /\ (ev.err = "NetworkFailure" /\ form.page = "login")
          => form.error = "Login failed. Please try again."
    /\ (ev.err = "NetworkFailure" /\ form.page = "register")
          => form.error = "Registration failed. Please try again."

\* the Login form shows the detail of a 401 response
C23_Witness ==
  /\ ev.kind = "loginErr" /\ ev.origin = "login" /\ ev.err = "InvalidCredentials"
  /\ form.page = "login" /\ form.error = "Incorrect username or password"

\* the submit the page shown offers, with credentials its checks accept
Resubmit ==
  \E u \in Usernames, p \in Passwords :
    IF form.page = "login" THEN LoginSubmit(u, p) ELSE RegisterSubmit(u, p, p)

\* C24: after a login or a registration submitted from a form has failed, the
\* page's loading flag is false and no call is awaited, so the submit button is
\* enabled: the form can be submitted again (as long as the run has a call
\* left), and the rejection has changed nothing in the session.
C24_FailureIsRecoverable ==
  ev.settled = "rejected" =>
    /\ ~form.isLoading /\ form.call = 0 /\ form.page = ev.origin
    /\ token = ev.prior.token /\ user = ev.prior.user /\ storage = ev.prior.storage
    /\ ncalls < MaxCalls => ENABLED Resubmit

\* a submit made after a rejected one has brought the session to Authenticated
C24_Witness ==
  /\ form.failed > 0
  /\ ev.kind = "profileOk" /\ ev.settled = "resolved"
  /\ Authenticated /\ token = ev.tok /\ user = Subject(ev.tok)
  /\ form.page = "dashboard"

\* C25: every failure of a profile request, a 401 or a request without a
\* response, makes the same transition: the storage slot is emptied, the token
\* is null, isLoading false and the guard renders no protected content; the
\* session after it is the same for every cause, and no promise rejects with
\* the cause.
C25_FailureCauseNotDistinguished ==
  ev.kind = "profileErr" =>
    /\ storage = Null /\ token = Null /\ ~isLoading
    /\ route = "Navigate"
    /\ ev.thrown = Null
    /\ \A e \in ProfileErrors : fetchUserDataCatch(ev.prior, e) = Session

\* a profile request has failed without a response, with a token in the slot
C25_Witness ==
  /\ ev.kind = "profileErr" /\ ev.err = "NetworkFailure"
  /\ ev.prior.storage # Null /\ ev.prior.token # Null
  /\ storage = Null /\ token = Null

\* C28: when logout() was called while login's token request was in flight
\* (and no other login has stored a token meanwhile), the session is still
\* logged out after the late successful response has been handled.
C28_LogoutDuringLoginEndsLoggedOut ==
  (/\ ev.kind = "loginOk"
   /\ "logout" \in ev.seen
   /\ "token" \notin ev.seen)
    => LoggedOut

\* C29: when login's token request succeeds and the profile request after it
\* fails, login() is fulfilled, not rejected: the page that awaits it shows no
\* error and navigates to /dashboard, as after a successful login.
C29_LoginResolvesOnProfileFailure ==
  (ev.kind = "profileErr" /\ ev.origin \in {"login", "register"}) =>
    /\ ev.settled = "resolved" /\ ev.thrown = Null
    /\ form.page = "dashboard" /\ form.error = "" /\ form.call = 0

\* the Login page has navigated to /dashboard after a failed profile request
C29_Witness ==
  /\ ev.kind = "profileErr" /\ ev.origin = "login" /\ ev.settled = "resolved"
  /\ form.page = "dashboard" /\ token = Null

\* C30: isLoading is true until the mount effect runs and, once false, is
\* false after every task; so while the profile request of a login made after
\* the initial check is in flight, with the token set and no user, the Route
\* Guard is out of the loading window and redirects.
C30_LoadingNeverReturns ==
  /\ ~mounted => isLoading
  /\ ~ev.prior.isLoading => ~isLoading
  /\ (ev.kind = "loginOk" /\ ~ev.prior.isLoading) =>
        /\ route # "Loading"
        /\ user = Null => route = "Navigate"

\* a login made after the initial check is resolving its profile
C30_Witness ==
  /\ ev.kind = "loginOk" /\ ~ev.prior.isLoading
  /\ token = ev.tok /\ user = Null /\ route = "Navigate"
  /\ \E r \in InFlight(ev.call) : r.kind = "profile"

\* usernames, emails and ids each name at most one record
Unique(us) ==
  \A a, b \in us :
    (a.username = b.username \/ a.email = b.email \/ a.id = b.id) => a = b

\* C26: a registration whose username or email is in the Credential Store
\* when the handler looks it up, or when it inserts, is answered DuplicateUser
\* and leaves the set of records as it was; usernames and emails are unique in
\* every reachable state.
C26_DuplicateRejected ==
  /\ Unique(users)
  /\ \A i \in DOMAIN handlers :
        (/\ last = i
         /\ handlers[i].pc # "check"
         /\ Exists(handlers[i].prior, handlers[i].username, handlers[i].email))
          => (handlers[i].result = "DuplicateUser" /\ users = handlers[i].prior)
  /\ \A i \in DOMAIN handlers :
        handlers[i].result = "created" =>
          \E u \in users : u.username = handlers[i].username /\ u.email = handlers[i].email

\* a registration with the email of an existing record has been rejected
C26_Witness ==
  \E i \in DOMAIN handlers :
    /\ last = i /\ handlers[i].result = "DuplicateUser"
    /\ \E u \in users : u.email = handlers[i].email /\ u.username # handlers[i].username

\* the handlers of registrations with username name
Registrations(name) ==
  {i \in DOMAIN handlers : handlers[i].username = name}

\* C27: of the registrations with one username, whatever the interleaving of
\* their lookups and inserts, at most one creates a record, and once all of
\* them are done exactly one has and the others were answered DuplicateUser; no
\* two records have that username.
C27_OneRegistrationWins ==
  \A name \in Usernames :
    LET created == {i \in Registrations(name) : handlers[i].result = "created"} IN
      /\ Cardinality(created) <= 1
      /\ Cardinality({u \in users : u.username = name}) <= 1
      /\ (/\ Registrations(name) # {}
          /\ \A i \in Registrations(name) : handlers[i].pc = "done"
          /\ \A i \in DOMAIN handlers : handlers[i].username # name =>
                \A j \in Registrations(name) : handlers[i].email # handlers[j].email)
            => /\ Cardinality(created) = 1
               /\ \A i \in Registrations(name) \ created :
                     handlers[i].result = "DuplicateUser"

\* two registrations of one username both passed the lookup, and the insert of
\* the second was rejected
C27_Witness ==
  \E i, j \in DOMAIN handlers :
    /\ i # j /\ handlers[i].username = handlers[j].username
    /\ handlers[i].result = "created" /\ handlers[j].result = "DuplicateUser"
    /\ last = j /\ ~Exists(handlers[i].prior, handlers[j].username, handlers[j].email)
    /\ handlers[j].prior = users

\* after a rejected submit the page is still the form, with a message
C31_State ==
  ev.settled = "rejected" =>
    /\ form.page \in {"login", "register"} /\ form.page = ev.origin
    /\ form.error # ""

\* a form is replaced by the dashboard, other than by the user's own
\* navigation, only in the task that fulfils the call the form awaits
C31_Step ==
  (form.page \in {"login", "register"} /\ form'.page = "dashboard" /\ ev'.kind # "goto")
    => (/\ form.call # 0 /\ ev'.call = form.call
        /\ ev'.settled = "resolved" /\ ev'.thrown = Null)

\* C31: the Login and Register pages navigate to /dashboard only once the
\* login() or register() they await has been fulfilled; when the call
\* rejects the page stays on the form, with its error message set.
C31_NavigateOnlyAfterResolve ==
  []C31_State /\ [][C31_Step]_vars

\* the Login page has navigated after login() was fulfilled
C31_Witness ==
  /\ ev.kind = "profileOk" /\ ev.origin = "login" /\ ev.settled = "resolved"
  /\ form.page = "dashboard" /\ user = Subject(ev.tok)

C33_State ==
  /\ ev.kind = "invalid" =>
        /\ form.page = "register" /\ ~form.isLoading /\ form.call = 0
        /\ ev.cred.password # ev.cred.confirmPassword
              => form.error = "Passwords do not match"
        /\ ev.cred.password = ev.cred.confirmPassword
              => /\ Len(ev.cred.password) < 6
                 /\ form.error = "Password must be at least 6 characters"
        /\ Session = ev.prior
  /\ (ev.kind = "registerCall" /\ form.call = ev.call) =>
        Len(ev.cred.password) >= 6

\* a submit a check rejects sends no request and changes nothing in the session
C33_Step ==
  ev'.kind = "invalid" =>
    /\ reqs' = reqs /\ ncalls' = ncalls
    /\ Session' = Session /\ route' = route

\* C33: on a Register submit whose password and confirmation differ, or whose
\* password is shorter than 6 characters, the page shows the error of the
\* check that failed, the mismatch being checked first; no request is sent and
\* the session is unchanged.
C33_RegisterValidation ==
  []C33_State /\ [][C33_Step]_vars

\* a password that is both too short and unconfirmed is reported as a mismatch
C33_Witness ==
  /\ ev.kind = "invalid"
  /\ ev.cred.password = "short" /\ ev.cred.confirmPassword = "password123"
  /\ form.error = "Passwords do not match" /\ reqs = {}

\* C34: every profile request carries 'Authorization: Bearer <t>' with t the
\* token it was made for: the token the mount effect read from the storage
\* slot, or the access_token the login request has just returned, whatever
\* token the session held before.
C34_BearerIsTriggerToken ==
  /\ \A r \in reqs : r.kind = "profile" =>
        /\ r.http.method = "GET" /\ r.http.url = "http://localhost:8000/users/me"
        /\ r.http.headers.Authorization = "Bearer " \o r.tok
  /\ (ev.kind = "mount" /\ ev.prior.storage # Null) =>
        \E r \in reqs :
          /\ r.origin = "init"
          /\ r.http.headers.Authorization = "Bearer " \o ev.prior.storage
  /\ ev.kind = "loginOk" =>
        \E r \in InFlight(ev.call) :
          /\ r.kind = "profile"
          /\ r.http.headers.Authorization = "Bearer " \o ev.tok

\* a login has sent its profile request while the session held another token
C34_Witness ==
  /\ ev.kind = "loginOk"
  /\ ev.prior.token # Null /\ ev.prior.token # ev.tok
  /\ \E r \in InFlight(ev.call) :
        r.kind = "profile" /\ r.http.headers.Authorization = "Bearer " \o ev.tok

====
